---- MODULE Spec2Model ----
(***************************************************************************)
(* A model of the pomf-style Telegram file relay worker.  Two scripts of   *)
(* the repository are modelled: src/workers.js (several files per upload,  *)
(* processed with Promise.all) and src/unnamed/part_000 (one file per      *)
(* upload).  The variable impl says which script is deployed.              *)
(*                                                                         *)
(* Strings the code slices, splits or compares by prefix (paths, file      *)
(* names, public identifiers) are sequences of one-character strings.      *)
(***************************************************************************)
EXTENDS Integers, Sequences, FiniteSets, TLC

\* ---------------------------------------------------------------- bounds
MaxUploads == 2    \* uploads received in one behaviour

\* ------------------------------------------------------------- constants
MAX_FILE_SIZE == 52428800

\* The alphabet of the random identifier: letters and digits only.
chars ==
    { "a", "b", "c", "d", "e", "f", "g", "h", "i", "j", "k", "l", "m",
      "n", "o", "p", "q", "r", "s", "t", "u", "v", "w", "x", "y", "z",
      "A", "B", "C", "D", "E", "F", "G", "H", "I", "J", "K", "L", "M",
      "N", "O", "P", "Q", "R", "S", "T", "U", "V", "W", "X", "Y", "Z",
      "0", "1", "2", "3", "4", "5", "6", "7", "8", "9" }

Impls == {"workers", "part_000"}

\* ------------------------------------------------------ string functions
StartsWith(s, p) == Len(s) >= Len(p) /\ SubSeq(s, 1, Len(p)) = p

\* s.slice(n)
Slice(s, n) == SubSeq(s, n + 1, Len(s))

\* s.lastIndexOf(c), 0-based, -1 when absent
LastIndexOf(s, c) ==
    LET hits == {i \in 1..Len(s) : s[i] = c}
    IN  IF hits = {} THEN -1
        ELSE (CHOOSE i \in hits : \A j \in hits : j <= i) - 1

\* s.split(c)[0]
SplitFirst(s, c) ==
    LET hits == {i \in 1..Len(s) : s[i] = c}
    IN  IF hits = {} THEN s
        ELSE SubSeq(s, 1, (CHOOSE i \in hits : \A j \in hits : i <= j) - 1)

\* The path a URL parser yields for a path string: a space is
\* percent-encoded, every other character of the model's alphabet is kept.
RECURSIVE UrlPathname(_)
UrlPathname(s) ==
    IF s = <<>> THEN <<>>
    ELSE (IF Head(s) = " " THEN <<"%", "2", "0">> ELSE <<Head(s)>>)
         \o UrlPathname(Tail(s))

UploadPath == <<"/", "u", "p", "l", "o", "a", "d">>
FPrefix == <<"/", "f", "/">>

\* ------------------------------------------------------------ the router
handleRequest(method, path) ==
    IF path = UploadPath /\ method = "POST" THEN "upload"
    ELSE IF StartsWith(path, FPrefix) THEN "download"
    ELSE "notfound"

\* -------------------------------------------------- identifier generator
\* The draws of the eight-character identifier the model considers.
RandomIds ==
    { id \in { <<"a", "B", "3", "d", "E", "9", "f", "Z">>,
               <<"q", "q", "q", "q", "q", "q", "q", "q">> } :
        Len(id) = 8 /\ \A i \in 1..Len(id) : id[i] \in chars }

generatePublicId(filename, id) ==
    LET lastDotIndex == LastIndexOf(filename, ".")
    IN  IF lastDotIndex # -1 /\ lastDotIndex < Len(filename) - 1
        THEN id \o Slice(filename, lastDotIndex)
        ELSE id

\* ------------------------------------------------------------- responses
NoResp == [status |-> 0, json |-> FALSE, success |-> FALSE, error |-> "",
           files |-> <<>>, body |-> ""]

jsonResponse(success, error, files, status) ==
    [status |-> status, json |-> TRUE, success |-> success, error |-> error,
     files |-> files, body |-> ""]

jsonError(message, status) == jsonResponse(FALSE, message, <<>>, status)

\* new Response(response.body, { headers }): the status is the default, 200
binaryResponse(body) ==
    [status |-> 200, json |-> FALSE, success |-> FALSE, error |-> "",
     files |-> <<>>, body |-> body]

\* ------------------------------------------------------------ the inputs
Methods == {"GET", "POST"}

\* Content-Type header values, as a sequence of tokens; <<>> is a missing
\* header (request.headers.get('Content-Type') || '').
ContentTypes == { <<"multipart/form-data", "; boundary=b">>,
                  <<"application/json">>,
                  <<>> }

\* The entries a form can hold under files[]: three files and a plain
\* string value (not a File).
FileA == [isFile |-> TRUE, name |-> <<"a", ".", "b", ".", "p">>, size |-> 1,
          data |-> "d1"]
FileB == [isFile |-> TRUE, name |-> <<"v", ".", "1", " ", "f">>,
          size |-> MAX_FILE_SIZE, data |-> "d2"]
FileC == [isFile |-> TRUE, name |-> <<"c", ".">>, size |-> MAX_FILE_SIZE + 1,
          data |-> "d3"]
Text == [isFile |-> FALSE, name |-> <<>>, size |-> 0, data |-> "s"]

Entries == {FileA, FileB, FileC, Text}

\* The forms a client posts: the values of files[], in order.
Forms == { <<>>, <<Text>>, <<FileA>>, <<FileB>>, <<FileC>>,
           <<FileA, FileA>>, <<FileA, FileC>>, <<Text, FileA>> }

\* The bodies a client posts to /upload: a Content-Type header, whether the
\* body parses as a form, and the form it parses to.
Bodies ==
    {[ctype |-> ct, parseOk |-> ok,
      form |-> IF ok /\ StartsWith(ct, <<"multipart/form-data">>)
               THEN form ELSE <<>>] :
        ct \in ContentTypes, ok \in BOOLEAN, form \in Forms}

\* every public identifier an upload of the model can generate
PublicIds == {generatePublicId(e.name, id) : e \in Entries, id \in RandomIds}

\* the paths of the requests that are not POST /upload
OtherPaths == {UrlPathname(FPrefix \o k) : k \in PublicIds}
              \cup {UploadPath, <<"/">>}

\* ----------------------------------------------------------------- state
\* Requests are served one after the other: a request arrives when the one
\* before it has returned its response and left nothing pending (Finish).
\* The handlers of two requests share nothing but FILES and the provider.
VARIABLES
    impl,     \* the deployed script
    kv,       \* the FILES namespace: public identifier -> file_id
    tg,       \* the documents the provider stored; a file_id is an index
    cur,      \* the request being served, or the last one served
    uploads,  \* the number of uploads received
    issued,   \* history: the url and the file_id of every result record
              \* of a 200 upload response
    putBy     \* history: the upload and file that wrote each key last

vars == <<impl, kv, tg, cur, uploads, issued, putBy>>

NewReq(method, path, route) ==
    [method |-> method, path |-> path, route |-> route,
     ctype |-> <<>>, parseOk |-> TRUE, form |-> <<>>,
     tasks |-> <<>>, resp |-> NoResp,
     publicId |-> <<>>, fileId |-> 0, dl |-> "none", tgCalls |-> 0,
     fetched |-> "none"]

NoReq == NewReq("", <<>>, "none")

Responded(q) == q.resp # NoResp

Pending(t) == t.pc \in {"send", "put"}

\* no request is being served
Idle == cur = NoReq

Init ==
    /\ impl \in Impls
    /\ kv = <<>>
    /\ tg = <<>>
    /\ cur = NoReq
    /\ uploads = 0
    /\ issued = {}
    /\ putBy = <<>>

\* ------------------------------------------------------- key-value store
\* FILES.get(key): the value, or 0 for null
FilesGet(store, key) == IF key \in DOMAIN store THEN store[key] ELSE 0

\* a put keyed by the hash part instead of the public identifier
FilesPutByHash(store, key, value) == (SplitFirst(key, ".") :> value) @@ store

\* FILES.put(key, value)
FilesPut(store, key, value) == (key :> value) @@ store

\* ---------------------------------------------------------------- upload
ErrContentType == "Invalid Content-Type. Must be multipart/form-data"
ErrExceeds == "File exceeds 50MB limit"
ErrParse == "Failed to parse body as FormData"
ErrTelegram == "Telegram API error: Bad Request"
ErrNoFileId == "Failed to retrieve file ID from Telegram"

\* error.message.includes('exceeds')
IncludesExceeds(message) == message = ErrExceeds

\* the status of the catch block of handleUpload in workers.js
catchStatus(message) == IF IncludesExceeds(message) THEN 400 ELSE 500

\* files.filter(f => f instanceof File)
FilterFiles(form) == SelectSeq(form, LAMBDA e : e.isFile)

NewTask(file, publicId, pc, err) ==
    [file |-> file, publicId |-> publicId, pc |-> pc, err |-> err,
     handle |-> 0, sent |-> FALSE, sentLate |-> FALSE, putLate |-> FALSE]

\* the file is over the limit
ExceedsLimit(file) == file.size > MAX_FILE_SIZE

\* The synchronous start of the per-file callbacks of files.map in
\* workers.js: the size check and the identifier.
StartTasks(files, ids) ==
    [i \in 1..Len(files) |->
        IF ExceedsLimit(files[i])
        THEN NewTask(files[i], <<>>, "thrown", ErrExceeds)
        ELSE NewTask(files[i], generatePublicId(files[i].name, ids[i]),
                     "send", "")]

\* the rejection Promise.all reports among promises rejected at once: the
\* first in the order of the array
FirstThrown(tasks) ==
    LET th == {i \in 1..Len(tasks) : tasks[i].pc = "thrown"}
    IN  CHOOSE i \in th : \A j \in th : i <= j

handleUploadWorkers(q, ids) ==
    IF ~StartsWith(q.ctype, <<"multipart/form-data">>)
    THEN [q EXCEPT !.resp = jsonResponse(FALSE, ErrContentType, <<>>, 400)]
    ELSE IF ~q.parseOk
    THEN [q EXCEPT !.resp = jsonResponse(FALSE, ErrParse, <<>>, catchStatus(ErrParse))]
    ELSE LET files == FilterFiles(q.form)
             tasks == StartTasks(files, ids)
         IN  IF Len(files) = 0
             THEN [q EXCEPT !.resp = jsonResponse(FALSE, "No valid files uploaded", <<>>, 400)]
             ELSE IF \E i \in 1..Len(tasks) : tasks[i].pc = "thrown"
             THEN [q EXCEPT !.tasks = tasks,
                            !.resp = jsonResponse(FALSE, tasks[FirstThrown(tasks)].err,
                                                  <<>>, catchStatus(tasks[FirstThrown(tasks)].err))]
             ELSE [q EXCEPT !.tasks = tasks]

handleUploadSingle(q, ids) ==
    IF ~StartsWith(q.ctype, <<"multipart/form-data">>)
    THEN [q EXCEPT !.resp = jsonError(ErrContentType, 400)]
    ELSE IF ~q.parseOk
    THEN [q EXCEPT !.resp = jsonError("Malformed multipart form data", 400)]
    ELSE IF Len(q.form) = 0 \/ ~q.form[1].isFile
    THEN [q EXCEPT !.resp = jsonError("No valid file uploaded", 400)]
    ELSE [q EXCEPT !.tasks =
            <<NewTask(q.form[1], generatePublicId(q.form[1].name, ids[1]), "send", "")>>]

\* the requests a client can send: a method and a path
Paths == OtherPaths \cup {UploadPath}

\* POST /upload arrives: the handler runs up to its first provider call
ReceiveUpload ==
    /\ Idle
    /\ uploads < MaxUploads
    /\ \E m \in Methods, p \in Paths :
         /\ handleRequest(m, p) = "upload"
         /\ \E b \in Bodies :
              LET q == [NewReq(m, p, "upload") EXCEPT
                          !.ctype = b.ctype, !.parseOk = b.parseOk,
                          !.form = b.form]
                  draws == [1..Len(FilterFiles(b.form)) \cup {1} -> RandomIds]
              IN  cur' \in {IF impl = "workers"
                            THEN handleUploadWorkers(q, ids)
                            ELSE handleUploadSingle(q, ids) : ids \in draws}
    /\ uploads' = uploads + 1
    /\ UNCHANGED <<impl, kv, tg, issued, putBy>>

\* The provider's answers to sendDocument: it stores the file and returns
\* a document holding a file_id, it reports a failure, or it stores the
\* file under another field than document.
SendOutcomes == {"ok", "notok", "nodoc"}

sendDocument(outcome, store) ==
    [ok |-> outcome # "notok",
     hasDocument |-> outcome = "ok",
     file_id |-> IF outcome = "ok" THEN Len(store) + 1 ELSE 0]

\* a handler that reads sendResult.ok only
sendErrorOkOnly(script, sendResult) ==
    IF sendResult.ok THEN ""
    ELSE IF script = "workers" THEN ErrTelegram ELSE "Upload failed"

\* What the handler does with the provider's answer: "" when it goes on to
\* the put, otherwise the error of the response.
sendError(script, sendResult) ==
    IF script = "workers"
    THEN IF ~sendResult.ok THEN ErrTelegram
         ELSE IF ~sendResult.hasDocument \/ sendResult.file_id = 0 THEN ErrNoFileId
         ELSE ""
    ELSE IF ~sendResult.ok THEN "Upload failed"
         ELSE IF ~sendResult.hasDocument THEN "Internal server error"
         ELSE ""

\* the error response of an upload
uploadErrorResponse(script, message) ==
    IF script = "workers"
    THEN jsonResponse(FALSE, message, <<>>, catchStatus(message))
    ELSE jsonError(message, 500)

\* the url field of a result record, without the origin
resultUrl(script, publicId) ==
    IF script = "workers" THEN FPrefix \o publicId
    ELSE UrlPathname(FPrefix \o publicId)

resultRecord(script, t) ==
    [hash |-> SplitFirst(t.publicId, "."), name |-> t.file.name,
     url |-> resultUrl(script, t.publicId), size |-> t.file.size]

\* the files of the 200 response
uploadResults(script, tasks) ==
    [i \in 1..Len(tasks) |-> resultRecord(script, tasks[i])]

\* The sendDocument call of file i of the upload and the handling of its
\* answer; a failure rejects Promise.all (or returns) at once.
SendDocument(i) ==
    /\ cur.route = "upload"
    /\ i \in 1..Len(cur.tasks)
    /\ cur.tasks[i].pc = "send"
    /\ \E outcome \in SendOutcomes :
         LET t == cur.tasks[i]
             sendResult == sendDocument(outcome, tg)
             err == sendError(impl, sendResult)
             t2 == [t EXCEPT !.sent = TRUE, !.sentLate = Responded(cur),
                             !.pc = IF err = "" THEN "put" ELSE "thrown",
                             !.err = err,
                             !.handle = sendResult.file_id]
         IN  /\ tg' = IF outcome = "ok"
                      THEN Append(tg, [data |-> t.file.data, req |-> uploads, idx |-> i])
                      ELSE tg
             /\ cur' = [cur EXCEPT !.tasks[i] = t2,
                                   !.resp = IF err # "" /\ ~Responded(cur)
                                            THEN uploadErrorResponse(impl, err)
                                            ELSE cur.resp]
    /\ UNCHANGED <<impl, kv, uploads, issued, putBy>>

\* FILES.put of file i of the upload; the last put to complete resolves
\* Promise.all and the 200 response is returned.
Put(i) ==
    /\ cur.route = "upload"
    /\ i \in 1..Len(cur.tasks)
    /\ cur.tasks[i].pc = "put"
    /\ LET t == cur.tasks[i]
           tasks2 == [cur.tasks EXCEPT ![i] =
                        [t EXCEPT !.pc = "done", !.putLate = Responded(cur)]]
           ok200 == ~Responded(cur) /\ \A j \in 1..Len(tasks2) : tasks2[j].pc = "done"
           results == uploadResults(impl, tasks2)
       IN  /\ kv' = FilesPut(kv, t.publicId, t.handle)
           /\ putBy' = (t.publicId :> [req |-> uploads, idx |-> i]) @@ putBy
           /\ cur' = [cur EXCEPT !.tasks = tasks2,
                                 !.resp = IF ok200
                                          THEN jsonResponse(TRUE, "", results, 200)
                                          ELSE cur.resp]
           /\ issued' = IF ok200
                        THEN issued \cup
                             {[url |-> results[j].url, hash |-> results[j].hash,
                               publicId |-> tasks2[j].publicId,
                               handle |-> tasks2[j].handle,
                               single |-> Len(cur.form) = 1] : j \in 1..Len(tasks2)}
                        ELSE issued
    /\ UNCHANGED <<impl, tg, uploads>>

\* After the response the runtime may drop what the request left pending.
CancelPending ==
    /\ cur.route = "upload"
    /\ Responded(cur)
    /\ \E i \in 1..Len(cur.tasks) : Pending(cur.tasks[i])
    /\ cur' = [cur EXCEPT !.tasks =
          [i \in 1..Len(cur.tasks) |->
              IF Pending(cur.tasks[i])
              THEN [cur.tasks[i] EXCEPT !.pc = "cancelled"]
              ELSE cur.tasks[i]]]
    /\ UNCHANGED <<impl, kv, tg, uploads, issued, putBy>>

\* -------------------------------------------------------------- download
\* a handler that does not test the value FILES.get returned
handleDownloadNoCheck(q, store) ==
    [q EXCEPT !.publicId = Slice(q.path, 3),
              !.fileId = FilesGet(store, Slice(q.path, 3)),
              !.dl = "resolve"]

\* A request routed to handleDownload arrives: the lookup in FILES.
handleDownload(q, store) ==
    LET publicId == Slice(q.path, 3)
        fileId == FilesGet(store, publicId)
    IN  IF fileId = 0
        THEN [q EXCEPT !.publicId = publicId,
                       !.resp = jsonError("File not found", 404)]
        ELSE [q EXCEPT !.publicId = publicId, !.fileId = fileId,
                       !.dl = "resolve"]

ReceiveDownload ==
    /\ Idle
    /\ \E m \in Methods, p \in Paths :
         /\ handleRequest(m, p) = "download"
         /\ cur' = handleDownload(NewReq(m, p, "download"), kv)
    /\ UNCHANGED <<impl, kv, tg, uploads, issued, putBy>>

\* the provider's answers to getFile and to the fetch of the file content
ResolveOutcomes == {"ok", "fail"}
FetchOutcomes == {"ok", "httpError", "throw"}

\* fetchTelegramFile answers; the handler throws unless fileData.ok
resolveResponse(q, outcome) ==
    IF outcome = "ok"
    THEN [q EXCEPT !.dl = "fetch", !.tgCalls = @ + 1]
    ELSE [q EXCEPT !.dl = "end", !.tgCalls = @ + 1,
                   !.resp = jsonError("Download failed", 500)]

DownloadResolve ==
    /\ cur.dl = "resolve"
    /\ \E outcome \in ResolveOutcomes : cur' = resolveResponse(cur, outcome)
    /\ UNCHANGED <<impl, kv, tg, uploads, issued, putBy>>

\* What the handler returns for the answer to fetch(fileUrl): only an
\* exception reaches the catch block; the status of the answer is not read.
fetchResponse(outcome, content) ==
    IF outcome = "throw" THEN jsonError("Download failed", 500)
    ELSE IF outcome = "httpError" THEN binaryResponse("provider error page")
    ELSE binaryResponse(content)

DownloadFetch ==
    /\ cur.dl = "fetch"
    /\ \E outcome \in FetchOutcomes :
         cur' = [cur EXCEPT !.dl = "end", !.tgCalls = @ + 1, !.fetched = outcome,
                            !.resp = fetchResponse(outcome, tg[cur.fileId].data)]
    /\ UNCHANGED <<impl, kv, tg, uploads, issued, putBy>>

\* ------------------------------------------------------- any other route
ReceiveOther ==
    /\ Idle
    /\ \E m \in Methods, p \in Paths :
         /\ handleRequest(m, p) = "notfound"
         /\ cur' = [NewReq(m, p, "notfound") EXCEPT
                       !.resp = jsonError("Not found", 404)]
    /\ UNCHANGED <<impl, kv, tg, uploads, issued, putBy>>

\* The request has returned its response and nothing of it is left to run.
Finish ==
    /\ cur # NoReq
    /\ Responded(cur)
    /\ \A i \in 1..Len(cur.tasks) : ~Pending(cur.tasks[i])
    /\ cur' = NoReq
    /\ UNCHANGED <<impl, kv, tg, uploads, issued, putBy>>

Next ==
    \/ ReceiveUpload
    \/ ReceiveDownload
    \/ ReceiveOther
    \/ \E i \in 1..Len(cur.tasks) : SendDocument(i)
    \/ \E i \in 1..Len(cur.tasks) : Put(i)
    \/ CancelPending
    \/ DownloadResolve
    \/ DownloadFetch
    \/ Finish

Spec == Init /\ [][Next]_vars

\* ================================================================ claims
Multipart(q) == StartsWith(q.ctype, <<"multipart/form-data">>)

\* the extension generatePublicId appends for a file name
ExtOf(name) == generatePublicId(name, <<>>)

\* C1: every 200 upload response gives each file a hash that is its public
\* identifier without the extension, and a later GET of the url returned for
\* a single-file upload finds the mapping and serves the content stored
\* under the file_id the provider returned for that upload.
C1_RoundTrip ==
    /\ (cur.route = "upload" /\ cur.resp.status = 200) =>
          \A i \in 1..Len(cur.resp.files) :
              /\ cur.tasks[i].publicId
                    = cur.resp.files[i].hash \o ExtOf(cur.tasks[i].file.name)
              /\ Len(cur.resp.files[i].hash) = 8
    /\ (cur.route = "download" /\ cur.method = "GET" /\ Responded(cur)) =>
          \A u \in issued :
              (u.single /\ cur.path = UrlPathname(u.url)) =>
                  /\ cur.resp.status # 404
                  /\ cur.fileId = u.handle
                  /\ (cur.fetched = "ok" => cur.resp.body = tg[u.handle].data)

\* some file of the form is over the limit
HasOversize(q) ==
    \E i \in 1..Len(q.form) : q.form[i].isFile /\ q.form[i].size > MAX_FILE_SIZE

\* C2: an upload holding a file larger than 50 MiB is answered 400 and makes
\* no sendDocument call and no put, for any file, at any time.
C2_OversizeRejectedBeforeAnyCall ==
    (cur.route = "upload" /\ HasOversize(cur)) =>
        /\ Responded(cur) => cur.resp.status = 400
        /\ \A i \in 1..Len(cur.tasks) :
              ~cur.tasks[i].sent /\ cur.tasks[i].pc # "done"

\* C3: when a concurrent upload (workers.js, two files or more) has returned
\* an error response, no sendDocument call and no put of it is pending or
\* was made after the response.
C3_ErrorAfterAllAttempts ==
    (/\ impl = "workers" /\ cur.route = "upload" /\ Len(cur.tasks) >= 2
     /\ Responded(cur) /\ ~cur.resp.success) =>
        \A i \in 1..Len(cur.tasks) :
            /\ ~Pending(cur.tasks[i])
            /\ cur.tasks[i].pc # "cancelled"
            /\ ~cur.tasks[i].sentLate
            /\ ~cur.tasks[i].putLate

C5_ProviderFailureIs500 ==
    (cur.route = "download" /\ cur.fileId # 0 /\ Responded(cur)) =>
        /\ cur.fetched # "ok" =>
              cur.resp = jsonResponse(FALSE, "Download failed", <<>>, 500)
        /\ ~cur.resp.json => cur.fetched = "ok"

\* C6: POST /upload goes to the upload handler, GET /f/... to the download
\* handler, and every other method and path is answered 404 "Not found"
\* with no handler, provider or store call.
C6_RouterDispatch ==
    cur # NoReq =>
        /\ cur.route =
              IF cur.method = "POST" /\ cur.path = UploadPath THEN "upload"
              ELSE IF cur.method = "GET" /\ StartsWith(cur.path, FPrefix)
                   THEN "download"
              ELSE "notfound"
        /\ cur.route = "notfound" =>
              /\ cur.resp = jsonResponse(FALSE, "Not found", <<>>, 404)
              /\ cur.tgCalls = 0
              /\ cur.tasks = <<>>

\* C7: an upload with a multipart/form-data Content-Type whose body does not
\* parse is answered 400, with no sendDocument call and no put.
C7_MalformedBodyIs400 ==
    (cur.route = "upload" /\ Multipart(cur) /\ ~cur.parseOk) =>
        /\ cur.resp.status = 400
        /\ cur.tasks = <<>>

\* C8: a 200 upload response means one sendDocument call and one put per
\* file of the form, each put completed before the response, and one result
\* record per file.
C8_OneCallAndPutPerFile ==
    (cur.route = "upload" /\ cur.resp.status = 200) =>
        LET n == Len(FilterFiles(cur.form))
        IN  /\ n >= 1
            /\ Len(cur.tasks) = n
            /\ Len(cur.resp.files) = n
            /\ \A i \in 1..Len(cur.tasks) :
                  /\ cur.tasks[i].sent /\ cur.tasks[i].pc = "done"
                  /\ ~cur.tasks[i].sentLate /\ ~cur.tasks[i].putLate

\* C9 (as stated): once a key holds a file_id, no step changes the value
\* stored under it.
C9_NeverUpdated ==
    [][\A k \in DOMAIN kv : k \in DOMAIN kv' /\ kv'[k] = kv[k]]_vars

\* C9 (amended): no key is deleted, and a key is written or its value
\* changed only in the put of an upload whose own generated public identifier
\* is that key, which then holds that upload's file_id; no download writes.
C9_UpdatedOnlyByCollidingUpload ==
    [][/\ DOMAIN kv \subseteq DOMAIN kv'
       /\ \A k \in DOMAIN kv' :
            (k \notin DOMAIN kv \/ kv'[k] # kv[k]) =>
                /\ cur.route = "upload"
                /\ \E i \in 1..Len(cur.tasks) :
                      /\ cur.tasks[i].pc = "put"
                      /\ cur'.tasks[i].pc = "done"
                      /\ cur.tasks[i].publicId = k
                      /\ kv'[k] = cur.tasks[i].handle]_vars

\* a key was overwritten: a result record's file_id is no longer stored
C9_Witness ==
    \E u \in issued : kv[u.publicId] # u.handle

\* C10: every value of the store is a file_id the provider returned to the
\* sendDocument call of the upload and file that wrote it; a file whose call
\* failed or returned no file_id has no put.
C10_StoredHandlesComeFromOwnUpload ==
    /\ \A k \in DOMAIN kv :
          /\ kv[k] \in 1..Len(tg)
          /\ k \in DOMAIN putBy
          /\ tg[kv[k]].req = putBy[k].req
          /\ tg[kv[k]].idx = putBy[k].idx
    /\ cur.route = "upload" =>
          \A i \in 1..Len(cur.tasks) :
              cur.tasks[i].handle = 0 =>
                  /\ cur.tasks[i].pc # "done"
                  /\ \A k \in DOMAIN putBy :
                        putBy[k] # [req |-> uploads, idx |-> i]
    /\ cur.route # "upload" => cur.tasks = <<>>

C10_Witness ==
    /\ cur.route = "upload"
    /\ \E i, j \in 1..Len(cur.tasks) :
          /\ cur.tasks[i].sent /\ cur.tasks[i].pc = "thrown"
          /\ cur.tasks[j].pc = "done"
          /\ kv[cur.tasks[j].publicId] = cur.tasks[j].handle

====
